---- MODULE Spec2Model ----
(***************************************************************************)
(* Model of src/src/index.ts, the yt-dl command line tool: one run of the  *)
(* process, from the dispatch at the bottom of the file to process.exit.   *)
(*                                                                         *)
(* Strings are sequences of one-character strings, so that the string      *)
(* comparison of quality labels, the title sanitisation, path.join and the *)
(* percentage regular expression are computed as the code computes them.   *)
(***************************************************************************)
EXTENDS Integers, Sequences, FiniteSets, TLC

(***************************************************************************)
(* Bounds of the model.                                                    *)
(***************************************************************************)
MaxFormats == 3      \* longest info.formats list
MaxTotal == 230      \* the large totalBytes value of a stream
MaxChunk == 100      \* the large chunk length of a progress event
MaxEvents == 3       \* progress events / stderr chunks observed in one run

(***************************************************************************)
(* Characters and strings.                                                 *)
(***************************************************************************)
Digits == {"0", "1", "2", "3", "4", "5", "6", "7", "8", "9"}

DigitValue(c) ==
    CASE c = "0" -> 0 [] c = "1" -> 1 [] c = "2" -> 2 [] c = "3" -> 3
      [] c = "4" -> 4 [] c = "5" -> 5 [] c = "6" -> 6 [] c = "7" -> 7
      [] c = "8" -> 8 [] c = "9" -> 9

\* UTF-16 code unit of the characters that occur in quality labels.
CharCode(c) == IF c \in Digits THEN 48 + DigitValue(c)
               ELSE CASE c = "p" -> 112 [] c = " " -> 32 [] c = "f" -> 102
                      [] c = "s" -> 115 [] OTHER -> 0

\* JavaScript's a > b on strings: lexicographic on code units, a proper
\* prefix being the smaller one.
RECURSIVE StrGreater(_, _)
StrGreater(a, b) ==
    IF a = <<>> THEN FALSE
    ELSE IF b = <<>> THEN TRUE
    ELSE IF CharCode(Head(a)) # CharCode(Head(b))
         THEN CharCode(Head(a)) > CharCode(Head(b))
         ELSE StrGreater(Tail(a), Tail(b))

StrLess(a, b) == StrGreater(b, a)

RECURSIVE DigitsToNat(_)
DigitsToNat(s) ==
    IF s = <<>> THEN 0
    ELSE 10 * DigitsToNat(SubSeq(s, 1, Len(s) - 1)) + DigitValue(s[Len(s)])

(***************************************************************************)
(* Formats as ytdl-core reports them.  A qualityLabel of <<>> is a null    *)
(* label, a bitrate of <<>> an undefined bitrate, <<n>> the bitrate n.     *)
(***************************************************************************)
L720p == <<"7", "2", "0", "p">>
L1080p == <<"1", "0", "8", "0", "p">>
L720p60 == <<"7", "2", "0", "p", "6", "0">>

VideoAudioFormats ==
    [hasVideo : {TRUE}, hasAudio : {TRUE},
     qualityLabel : {L720p, L1080p, L720p60}, bitrate : {<<>>}]
AudioOnlyFormats ==
    [hasVideo : {FALSE}, hasAudio : {TRUE},
     qualityLabel : {<<>>}, bitrate : {<<>>, <<128>>, <<192>>}]
VideoOnlyFormats ==
    [hasVideo : {TRUE}, hasAudio : {FALSE},
     qualityLabel : {L1080p}, bitrate : {<<>>}]
Formats == VideoAudioFormats \cup AudioOnlyFormats \cup VideoOnlyFormats

SeqsUpTo(S, n) == UNION {[1..k -> S] : k \in 0..n}

\* ytdl.filterFormats(formats, filter): keeps the order of the list.
RECURSIVE filterFormats(_, _)
filterFormats(formats, filter) ==
    IF formats = <<>> THEN <<>>
    ELSE LET f == Head(formats)
             keep == IF filter = "videoandaudio" THEN f.hasVideo /\ f.hasAudio
                     ELSE ~f.hasVideo /\ f.hasAudio
         IN  (IF keep THEN <<f>> ELSE <<>>) \o filterFormats(Tail(formats), filter)

\* x ?? 0 on a bitrate
Nullish0(b) == IF b = <<>> THEN 0 ELSE b[1]

\* Variants of the reducer callbacks: the branches of the comparison swapped.
PickHighestSwapped(prev, curr) ==
    IF StrGreater(prev.qualityLabel, curr.qualityLabel) THEN curr ELSE prev

PickBitrateSwapped(prev, curr) ==
    IF (IF prev.bitrate = <<>> THEN 0 ELSE prev.bitrate[1])
         > (IF curr.bitrate = <<>> THEN 0 ELSE curr.bitrate[1])
    THEN curr ELSE prev

\* The reducer callbacks of lines 61, 62 and 209.
PickHighest(prev, curr) ==
    IF StrGreater(prev.qualityLabel, curr.qualityLabel) THEN prev ELSE curr

PickLowest(prev, curr) ==
    IF StrLess(prev.qualityLabel, curr.qualityLabel) THEN prev ELSE curr

PickBitrate(prev, curr) ==
    IF Nullish0(prev.bitrate) > Nullish0(curr.bitrate) THEN prev ELSE curr

\* The callback handed to reduce: that of line 61, of line 62 or of line 209.
Callback(which, prev, curr) ==
    CASE which = "highest" -> PickHighest(prev, curr)
      [] which = "lowest" -> PickLowest(prev, curr)
      [] which = "bitrate" -> PickBitrate(prev, curr)

\* Array.prototype.reduce without an initial value, on a non-empty array:
\* the first element is the accumulator, the rest are folded from the left.
RECURSIVE Fold(_, _, _)
Fold(which, acc, rest) ==
    IF rest = <<>> THEN acc
    ELSE Fold(which, Callback(which, acc, Head(rest)), Tail(rest))

reduce(which, arr) == Fold(which, Head(arr), Tail(arr))

\* The TypeError of reduce on an empty array, and the errors of lines 65, 212.
ReduceEmptyMessage == "Reduce of empty array with no initial value"
NoFormatMessage(isAudio) ==
    IF isAudio THEN "No suitable audio format found" ELSE "No suitable format found"

\* !format of lines 64 and 211: an element of the formats array is an object,
\* and every object is truthy.
NotFormat(format) == format \notin Formats

\* Lines 59-66 and 208-213: filter, reduce, then the !format test.  The
\* result is either the thrown error's message or the selected format.
SelectFormat(infoFormats, isAudio, q) ==
    LET formats == filterFormats(infoFormats,
                                 IF isAudio THEN "audioonly" ELSE "videoandaudio")
        format == IF isAudio THEN reduce("bitrate", formats)
                  ELSE IF q = "highest" THEN reduce("highest", formats)
                  ELSE reduce("lowest", formats)
    IN  IF formats = <<>>
        THEN [threw |-> TRUE, message |-> ReduceEmptyMessage, format |-> <<>>]
        ELSE IF NotFormat(format)
        THEN [threw |-> TRUE, message |-> NoFormatMessage(isAudio), format |-> <<>>]
        ELSE [threw |-> FALSE, message |-> "", format |-> <<format>>]

(***************************************************************************)
(* Progress.                                                               *)
(***************************************************************************)
\* Math.floor((downloaded / total) * 100).  For every total the model uses
\* (no multiple of 50) the IEEE-754 double result equals the integer floor.
Percentage(downloaded, total) == (downloaded * 100) \div total

\* Variant of the test: >= for >.
ShouldEmitOrEqual(percentage, lastPercentage) == percentage >= lastPercentage

\* The test of lines 78 and 225.
ShouldEmit(percentage, lastPercentage) == percentage > lastPercentage

\* Lines 179-183: message.includes('%') and message.match(/(\d+)%/); the
\* leftmost run of digits that is directly followed by '%'.  <<>> is no match.
RunEnd(msg, i) ==
    CHOOSE j \in i..Len(msg) :
        /\ \A k \in i..j : msg[k] \in Digits
        /\ (j = Len(msg) \/ msg[j + 1] \notin Digits)

MatchAt(msg, i) ==
    /\ msg[i] \in Digits
    /\ RunEnd(msg, i) < Len(msg)
    /\ msg[RunEnd(msg, i) + 1] = "%"

MatchPercent(msg) ==
    LET starts == {i \in 1..Len(msg) : MatchAt(msg, i)}
    IN  IF (\A k \in 1..Len(msg) : msg[k] # "%") \/ starts = {} THEN <<>>
        ELSE LET i == CHOOSE x \in starts : \A y \in starts : x <= y
             IN  <<SubSeq(msg, i, RunEnd(msg, i))>>

(***************************************************************************)
(* Titles and paths.  A normalised absolute path is the sequence of its    *)
(* segments, each segment a string.                                        *)
(***************************************************************************)
WordChars == Digits \cup {"a", "b", "d", "l", "o", "t", "w", "_"}

\* title.replace(/[^\w\s]/gi, '_')
Sanitize(title) ==
    [i \in 1..Len(title) |->
        IF title[i] \in WordChars \/ title[i] = " " THEN title[i] ELSE "_"]

Ext(isAudio) == IF isAudio THEN <<".", "m", "p", "3">> ELSE <<".", "m", "p", "4">>

\* `${videoTitle}.mp4` / `${videoTitle}.mp3`
FileName(title, isAudio) == Sanitize(title) \o Ext(isAudio)

\* s.split('/')
RECURSIVE Split(_)
Split(s) ==
    IF s = <<>> THEN << <<>> >>
    ELSE LET rest == Split(Tail(s))
         IN  IF Head(s) = "/" THEN << <<>> >> \o rest
             ELSE << <<Head(s)>> \o Head(rest) >> \o Tail(rest)

\* posix normalizeString for an absolute path: empty and "." segments are
\* dropped, ".." removes the segment before it and is dropped at the root.
RECURSIVE NormalizeSegs(_, _)
NormalizeSegs(done, segs) ==
    IF segs = <<>> THEN done
    ELSE LET g == Head(segs)
         IN  IF g = <<>> \/ g = <<".">> THEN NormalizeSegs(done, Tail(segs))
             ELSE IF g = <<".", ".">>
             THEN NormalizeSegs(IF done = <<>> THEN done
                                ELSE SubSeq(done, 1, Len(done) - 1), Tail(segs))
             ELSE NormalizeSegs(Append(done, g), Tail(segs))

IsAbsolute(p) == p # <<>> /\ Head(p) = "/"

\* path.join(a, b, c) with a absolute: the non-empty arguments joined by '/',
\* then normalised.
PathJoin(a, b, c) ==
    LET sep(x) == IF x = <<>> THEN <<>> ELSE <<"/">> \o x
    IN  NormalizeSegs(<<>>, Split(a \o sep(b) \o sep(c)))

\* The directory a path argument names to the fs calls of lines 40-41 and
\* 118-119: an absolute path as it is, a relative one under the working
\* directory.
FsResolve(workDir, p) ==
    IF IsAbsolute(p) THEN NormalizeSegs(<<>>, Split(p))
    ELSE NormalizeSegs(<<>>, Split(workDir \o <<"/">> \o p))

Dirname(path) == SubSeq(path, 1, Len(path) - 1)

\* fs.mkdirSync(dir, {recursive: true}) creates dir and its missing parents.
WithParents(dir) == {SubSeq(dir, 1, k) : k \in 0..Len(dir)}

(***************************************************************************)
(* The run.                                                                *)
(***************************************************************************)
VARIABLES
    audio,          \* options.audio
    quality,        \* options.quality
    urlValid,       \* what ytdl.validateURL(url) answers for the url argument
    outputDir,      \* options.output
    cwd,            \* process.cwd()
    info,           \* what ytdl.getInfo resolves to: [title, formats]
    total,          \* totalBytes of the download stream
    ytDlp,          \* how the yt-dlp binary behaves on this machine
    dirs,           \* the directories that exist
    files,          \* the files the run has created
    pc,             \* where the run is
    calls,          \* the calls made to the outside, in order
    hasYtDlp,       \* <<>> before the probe, then <<its result>>
    ensuredDir,     \* <<>>, then <<the directory lines 40-41 / 118-119 saw or made>>
    outputPath,     \* <<>>, then <<outputPath>>
    format,         \* <<>>, then <<the selected format>>
    ws,             \* the write stream: "none", "opening", "open"
    downloaded,     \* bytes the stream has reported
    lastPercentage, \* lastPercentage of lines 75 and 222
    emitted,        \* the percentages put into spinner.text, in order
    events,         \* progress events or stderr chunks seen
    exitCodes,      \* the codes process.exit was called with, in order
    lastEvent,      \* what ended the run
    errorMessage    \* the message of the error that was reported

inputs == <<audio, quality, urlValid, outputDir, cwd, info, total, ytDlp>>
fsv == <<dirs, files>>
ctl == <<pc, exitCodes, lastEvent, errorMessage>>
sel == <<ensuredDir, outputPath, format, ws>>
prog == <<downloaded, lastPercentage, emitted, events>>
vars == <<inputs, fsv, ctl, calls, hasYtDlp, sel, prog>>

DownloadsDir == <<".", "/", "d", "l">>
OutputDirs == {DownloadsDir, <<"o">>, <<"/", "t", "/", "o">>, <<".", ".", "/", "o">>}
Cwds == {<<"/">>, <<"/", "w">>}
Titles == {<<"a", " ", "b">>, <<"a", "/", "b">>, <<".", ".">>}
Totals == {3, MaxTotal}
ChunkSizes == {1, MaxChunk}
YtDlpStates == {"installed", "missing", "nonzero exit", "spawn error"}
ToolResults == {"ok", "ffmpeg", "other"}

\* stderr chunks of yt-dlp: "10.5%", "50%", "5%", "%" and "ok"
StderrChunks ==
    {<<"1", "0", ".", "5", "%">>, <<"5", "0", "%">>, <<"5", "%">>, <<"%">>,
     <<"o", "k">>}

\* The exit codes of lines 36/114, 87/173/234, 94 and 103/138, and the code
\* Node ends with when the write stream's 'error' event has no listener.
InvalidUrlExitCode == 1
SuccessExitCode == 0
StreamErrorExitCode == 1
UncaughtExitCode == 1

\* Variant of the catch blocks: the failure leaves with the success code.
CatchExitsWithSuccess == SuccessExitCode

CatchExitCode == 1

StartState ==
    /\ pc = "main" /\ calls = <<>> /\ hasYtDlp = <<>>
    /\ ensuredDir = <<>> /\ outputPath = <<>> /\ format = <<>> /\ ws = "none"
    /\ downloaded = 0 /\ lastPercentage = 0 /\ emitted = <<>> /\ events = 0
    /\ exitCodes = <<>> /\ lastEvent = "none" /\ errorMessage = ""
    /\ files = {}

\* Inputs a run never reads are held at one value.
Relevant ==
    /\ ~urlValid => info.formats = <<>> /\ ytDlp = "installed" /\ total = 3
    /\ ~audio => ytDlp = "installed"
    /\ (audio /\ ytDlp = "installed") => info.formats = <<>> /\ total = 3

\* Every list of formats; the default output directory.
Init ==
    /\ audio \in BOOLEAN /\ quality \in {"highest", "lowest"}
    /\ urlValid \in BOOLEAN
    /\ outputDir = DownloadsDir /\ cwd = <<"/", "w">>
    /\ info \in [title : {<<"a", "/", "b">>}, formats : SeqsUpTo(Formats, MaxFormats)]
    /\ total \in Totals
    /\ ytDlp \in YtDlpStates
    /\ dirs = WithParents(FsResolve(cwd, <<>>))
    /\ StartState
    /\ Relevant

\* Every output directory, working directory and title; two lists of formats.
PathInit ==
    /\ audio \in BOOLEAN /\ quality \in {"highest", "lowest"}
    /\ urlValid \in BOOLEAN
    /\ outputDir \in OutputDirs /\ cwd \in Cwds
    /\ info \in [title : Titles,
                 formats : {<<>>, <<CHOOSE f \in VideoAudioFormats : TRUE,
                                    CHOOSE f \in AudioOnlyFormats : TRUE>>}]
    /\ total \in Totals
    /\ ytDlp \in YtDlpStates
    /\ \E extra \in SUBSET {FsResolve(cwd, outputDir), PathJoin(cwd, outputDir, <<>>)} :
           dirs = WithParents(FsResolve(cwd, <<>>))
                    \cup UNION {WithParents(d) : d \in extra}
    /\ StartState
    /\ Relevant

Exit(code, event, message) ==
    /\ pc' = "exit"
    /\ exitCodes' = Append(exitCodes, code)
    /\ lastEvent' = event
    /\ errorMessage' = message

\* downloadVideo lines 30-51 and downloadAudio lines 108-123: validate the
\* url, see to the output directory, then start the first asynchronous call.
Begin ==
    /\ pc = "main"
    /\ IF ~urlValid
       THEN /\ Exit(InvalidUrlExitCode, "invalid url", "Invalid YouTube URL")
            /\ UNCHANGED <<dirs, ensuredDir, calls>>
       ELSE LET dir == FsResolve(cwd, outputDir)
            IN  \/ /\ dirs' = dirs \cup WithParents(dir)
                   /\ ensuredDir' = <<dir>>
                   /\ calls' = calls \o <<IF audio THEN "probe" ELSE "getInfo">>
                   /\ pc' = IF audio THEN "probe" ELSE "getInfo"
                   /\ UNCHANGED <<exitCodes, lastEvent, errorMessage>>
                \/ /\ dir \notin dirs          \* mkdirSync throws
                   /\ Exit(CatchExitCode, "mkdir error", "EACCES")
                   /\ UNCHANGED <<dirs, ensuredDir, calls>>
    /\ UNCHANGED <<inputs, files, hasYtDlp, outputPath, format, ws, prog>>

\* Variants: resolve(error), and the branches of line 125 swapped.
ProbeResultNotNegated(error) == error

UseYtDlpSwapped(has) == ~has

\* checkYtDlpInstalled line 145: resolve(!error)
ProbeResult(error) == ~error

\* downloadAudio line 125: which strategy runs
UseYtDlp(has) == has

\* checkYtDlpInstalled lines 142-148, then downloadAudio lines 125-130 up to
\* the execFile of line 154 or the getInfo of line 194.
ProbeDone ==
    /\ pc = "probe"
    /\ LET has == ProbeResult(ytDlp # "installed")
       IN  /\ hasYtDlp' = <<has>>
           /\ IF UseYtDlp(has)
              THEN /\ calls' = Append(calls, "execFile")
                   /\ pc' = "ytdlp"
              ELSE /\ calls' = calls \o <<"warn", "getInfo">>
                   /\ pc' = "getInfo"
    /\ UNCHANGED <<inputs, fsv, exitCodes, lastEvent, errorMessage, sel, prog>>

\* getInfo rejects: the catch of lines 97-104, or of 242-244 and 132-139.
GetInfoRejected ==
    /\ pc = "getInfo"
    /\ Exit(CatchExitCode, "fetch error", "getInfo failed")
    /\ UNCHANGED <<inputs, fsv, calls, hasYtDlp, sel, prog>>

\* getInfo resolves: lines 53-95, or lines 202-240.
GetInfoResolved ==
    /\ pc = "getInfo"
    /\ LET path == PathJoin(cwd, outputDir, FileName(info.title, audio))
           chosen == SelectFormat(info.formats, audio, quality)
       IN  /\ outputPath' = <<path>>
           /\ IF chosen.threw
              THEN /\ Exit(CatchExitCode, "select error", chosen.message)
                   /\ UNCHANGED <<format, ws, calls>>
              ELSE /\ format' = chosen.format
                   /\ calls' = calls \o <<"downloadFromInfo", "createWriteStream">>
                   /\ ws' = "opening"
                   /\ pc' = "stream"
                   /\ UNCHANGED <<exitCodes, lastEvent, errorMessage>>
    /\ UNCHANGED <<inputs, fsv, hasYtDlp, ensuredDir, prog>>

\* fs.createWriteStream of lines 72 and 219 opens the file: it is created when
\* its directory exists; otherwise the stream emits 'error', which has no
\* listener, and the process ends.
WriteStreamOpen ==
    /\ pc = "stream" /\ ws = "opening"
    /\ IF Dirname(outputPath[1]) \in dirs
       THEN /\ ws' = "open"
            /\ files' = files \cup {outputPath[1]}
            /\ UNCHANGED ctl
       ELSE /\ Exit(UncaughtExitCode, "write error", "ENOENT")
            /\ UNCHANGED <<ws, files>>
    /\ UNCHANGED <<inputs, dirs, calls, hasYtDlp, ensuredDir, outputPath, format, prog>>

\* The 'progress' handler, lines 76-82 and 223-229.
Progress ==
    /\ pc = "stream" /\ ws = "open" /\ events < MaxEvents
    /\ \E chunk \in ChunkSizes :
         /\ downloaded + chunk <= total
         /\ downloaded' = downloaded + chunk
         /\ LET percentage == Percentage(downloaded + chunk, total)
            IN  IF ShouldEmit(percentage, lastPercentage)
                THEN /\ emitted' = Append(emitted, percentage)
                     /\ lastPercentage' = percentage
                ELSE UNCHANGED <<emitted, lastPercentage>>
    /\ events' = events + 1
    /\ UNCHANGED <<inputs, fsv, ctl, calls, hasYtDlp, sel>>

\* The 'end' handler, lines 85-88 and 232-235.
StreamEnd ==
    /\ pc = "stream" /\ ws = "open"
    /\ Exit(SuccessExitCode, "stream end", "")
    /\ UNCHANGED <<inputs, fsv, calls, hasYtDlp, sel, prog>>

\* The 'error' handler: lines 91-95, or lines 238-240 and the catch of 132-139.
StreamError ==
    /\ pc = "stream" /\ ws = "open"
    /\ Exit(IF audio THEN CatchExitCode ELSE StreamErrorExitCode,
            "stream error", "stream failed")
    /\ UNCHANGED <<inputs, fsv, calls, hasYtDlp, sel, prog>>

\* The stderr 'data' handler of downloadAudioWithYtDlp, lines 177-185.
YtDlpStderr ==
    /\ pc = "ytdlp" /\ events < MaxEvents
    /\ \E message \in StderrChunks :
         LET match == MatchPercent(message)
         IN  IF match # <<>>
             THEN emitted' = Append(emitted, DigitsToNat(match[1]))
             ELSE UNCHANGED emitted
    /\ events' = events + 1
    /\ UNCHANGED <<inputs, fsv, ctl, calls, hasYtDlp, sel, downloaded, lastPercentage>>

\* The execFile callback of downloadAudioWithYtDlp, lines 160-175, and the
\* catch of lines 132-139.
YtDlpExit ==
    /\ pc = "ytdlp"
    /\ \E result \in ToolResults :
         IF result = "ok"
         THEN Exit(SuccessExitCode, "tool ok", "")
         ELSE Exit(CatchExitCode, "tool error",
                   IF result = "ffmpeg" THEN "ffmpeg is not installed"
                   ELSE "yt-dlp error")
    /\ UNCHANGED <<inputs, fsv, calls, hasYtDlp, sel, prog>>

Next ==
    \/ Begin
    \/ ProbeDone
    \/ GetInfoRejected
    \/ GetInfoResolved
    \/ WriteStreamOpen
    \/ Progress
    \/ StreamEnd
    \/ StreamError
    \/ YtDlpStderr
    \/ YtDlpExit

Spec == Init /\ [][Next]_vars

PathSpec == PathInit /\ [][Next]_vars

\* Every pending call of the run completes: the event loop runs the handler
\* of each event that arrives.
FairSpec == PathInit /\ [][Next]_vars /\ WF_vars(Next)

(***************************************************************************)
(* Properties.                                                             *)
(***************************************************************************)
\* a <= b in the lexicographic order of code units, stated on positions.
LexLE(a, b) ==
    \/ /\ Len(a) <= Len(b)
       /\ \A i \in 1..Len(a) : a[i] = b[i]
    \/ \E i \in 1..(IF Len(a) < Len(b) THEN Len(a) ELSE Len(b)) :
         /\ \A k \in 1..(i - 1) : a[k] = b[k]
         /\ CharCode(a[i]) < CharCode(b[i])

Range(seq) == {seq[i] : i \in 1..Len(seq)}
VideoCandidates == filterFormats(info.formats, "videoandaudio")
AudioCandidates == filterFormats(info.formats, "audioonly")
StrictlyIncreasing(seq) == \A i \in 1..(Len(seq) - 1) : seq[i] < seq[i + 1]
LibraryPath == "getInfo" \in Range(calls)
Position(call) == CHOOSE i \in 1..Len(calls) : calls[i] = call

\* C1: in downloadVideo, for a non-empty set of video+audio candidates, quality
\* 'highest' selects a candidate whose label is lexicographically >= the label
\* of every candidate, and 'lowest' one whose label is <= every label.
C1_SelectsExtremeLabel ==
    (~audio /\ format # <<>>) =>
        /\ format[1] \in Range(VideoCandidates)
        /\ quality = "highest" =>
             \A c \in Range(VideoCandidates) :
                LexLE(c.qualityLabel, format[1].qualityLabel)
        /\ quality = "lowest" =>
             \A c \in Range(VideoCandidates) :
                LexLE(format[1].qualityLabel, c.qualityLabel)

\* Three candidates with three labels, the selected one not the last.
C1_Witness ==
    /\ ~audio /\ quality = "highest" /\ format # <<>>
    /\ Len(VideoCandidates) = 3
    /\ Cardinality(Range(VideoCandidates)) = 3
    /\ format[1] = VideoCandidates[2]

\* C2: with the candidates [720p, 1080p] and quality 'highest', the format
\* selected for download is the one labelled 1080p.
C2_Selects1080p ==
    ( /\ ~audio /\ quality = "highest" /\ format # <<>>
      /\ [i \in 1..Len(VideoCandidates) |-> VideoCandidates[i].qualityLabel]
           = <<L720p, L1080p>> )
    => format[1].qualityLabel = L1080p

\* C3: in downloadAudioWithYtdlCore the selected format has a bitrate >= the
\* bitrate of every audio-only candidate, an undefined bitrate counting as 0,
\* whatever the quality preference is.
C3_SelectsMaxBitrate ==
    (audio /\ format # <<>>) =>
        /\ format[1] \in Range(AudioCandidates)
        /\ \A c \in Range(AudioCandidates) :
              (IF c.bitrate = <<>> THEN 0 ELSE c.bitrate[1])
                <= (IF format[1].bitrate = <<>> THEN 0 ELSE format[1].bitrate[1])
        /\ \A q \in {"highest", "lowest"} :
              SelectFormat(info.formats, TRUE, q).format = format

\* The bitrates [128, 192, undefined] select 192.
C3_Witness ==
    /\ audio /\ format # <<>>
    /\ [i \in 1..Len(AudioCandidates) |-> AudioCandidates[i].bitrate]
         = << <<128>>, <<192>>, <<>> >>
    /\ format[1].bitrate = <<192>>

\* C4: when getInfo succeeded and no candidate passes the filter, the run
\* fails with 'No suitable format found' / 'No suitable audio format found',
\* opens no download stream and exits with failure.
C4_NoSuitableFormat ==
    ( /\ outputPath # <<>>
      /\ (IF audio THEN AudioCandidates ELSE VideoCandidates) = <<>> )
    => /\ pc = "exit"
       /\ exitCodes = <<1>>
       /\ "downloadFromInfo" \notin Range(calls)
       /\ errorMessage = NoFormatMessage(audio)

\* C5: on the library path the percentages put into the spinner are strictly
\* increasing: each one exceeds the one emitted before it (and 0, the start
\* value of lastPercentage), so none is repeated and none is lower.
C5_ProgressIncreases ==
    LibraryPath =>
        /\ StrictlyIncreasing(emitted)
        /\ \A i \in 1..Len(emitted) : emitted[i] > 0
        /\ lastPercentage = (IF emitted = <<>> THEN 0 ELSE emitted[Len(emitted)])
        /\ lastPercentage >= Percentage(downloaded, total)

\* 100 of 230 bytes (43%), then 101 (43%, not emitted), then 201 (87%).
C5_Witness ==
    /\ LibraryPath /\ total = MaxTotal /\ events = 3
    /\ Len(emitted) = 2 /\ downloaded > 2 * MaxChunk
    /\ emitted[1] = Percentage(MaxChunk, total)

SuccessEvents == {"stream end", "tool ok"}
FailureEvents ==
    {"invalid url", "mkdir error", "fetch error", "select error", "stream error",
     "write error", "tool error"}

C6_ExitState ==
    /\ Len(exitCodes) <= 1
    /\ pc = "exit" <=> Len(exitCodes) = 1
    /\ pc = "exit" =>
         /\ lastEvent \in SuccessEvents \cup FailureEvents
         /\ exitCodes[1] = 0 <=> lastEvent \in SuccessEvents
         /\ lastEvent \in FailureEvents => exitCodes[1] = 1
    /\ \A i, j \in 1..Len(calls) : calls[i] = calls[j] => i = j

\* C6: every run reaches exactly one process exit, with code 0 exactly when
\* the download completed (stream 'end', or the external tool ended without
\* error) and code 1 for every failure; after the exit nothing more happens,
\* and no call to the outside is made twice.
C6_ExactlyOneExit ==
    /\ []C6_ExitState
    /\ [][pc = "exit" => UNCHANGED vars]_vars
    /\ <>(pc = "exit")

\* An audio run on the fallback path that ends with a stream error.
C6_Witness ==
    /\ audio /\ pc = "exit" /\ lastEvent = "stream error" /\ exitCodes = <<1>>
    /\ emitted # <<>>

\* C7: in an audio run the probe comes before any getInfo; when it reports the
\* tool as available the run is handed to the tool and neither getInfo nor
\* downloadFromInfo is ever called, even when the tool fails; getInfo is called
\* only after a probe that reported unavailable and after the warning.
C7_StrategyChoice ==
    audio =>
        /\ LibraryPath =>
              /\ hasYtDlp = <<FALSE>>
              /\ "probe" \in Range(calls) /\ "warn" \in Range(calls)
              /\ Position("probe") < Position("warn")
              /\ Position("warn") < Position("getInfo")
        /\ hasYtDlp = <<TRUE>> =>
              /\ "execFile" \in Range(calls)
              /\ Range(calls) \cap {"warn", "getInfo", "downloadFromInfo"} = {}
        /\ "downloadFromInfo" \in Range(calls) => LibraryPath

\* The tool was available, was run and failed.
C7_Witness ==
    /\ audio /\ hasYtDlp = <<TRUE>> /\ pc = "exit" /\ lastEvent = "tool error"

\* C8: on the audio fallback path with a successful download, the output file
\* is <outputDir>/<sanitizedTitle>.mp3 inside the directory that lines 118-119
\* checked or created.
C8_FileInEnsuredDir ==
    (audio /\ hasYtDlp = <<FALSE>> /\ lastEvent = "stream end") =>
        /\ outputPath[1] \in files
        /\ outputPath[1] = Append(ensuredDir[1], FileName(info.title, TRUE))

\* C9: on the external tool path the percentages put into the spinner are
\* strictly increasing, whatever the tool prints.
C9_ToolProgressIncreases ==
    hasYtDlp = <<TRUE>> => StrictlyIncreasing(emitted)

\* C10: the probe always yields a boolean, TRUE exactly when the version
\* command ran without error; when it failed the run goes on with the warning
\* and the library path instead of ending with the probe's error.
C10_ProbeNeverFails ==
    /\ pc = "probe" => hasYtDlp = <<>> /\ exitCodes = <<>>
    /\ ("probe" \in Range(calls) /\ pc # "probe") =>
         /\ hasYtDlp \in {<<TRUE>>, <<FALSE>>}
         /\ hasYtDlp[1] <=> ytDlp = "installed"
         /\ ytDlp # "installed" => LibraryPath /\ "execFile" \notin Range(calls)

\* The binary could not be spawned and the download runs on the library path.
C10_Witness ==
    /\ ytDlp = "spawn error" /\ hasYtDlp = <<FALSE>> /\ pc = "stream" /\ ws = "open"

====
